---- MODULE Spec2Model ----
(***************************************************************************)
(* Model of the zookeeper_jmx collectd plugin (src/zookeeperjmx.py): the   *)
(* collection cycle of JmxStat.collect_jmx_data, the bridge agent manager  *)
(* get_pid_port, the per-process workers get_pid_jmx_stats, the extraction *)
(* routines of the two categories in ZOOK_DOCS and the rate calculator     *)
(* get_rate / add_rate / add_rate_dispatch.                                *)
(*                                                                         *)
(* Conventions.  A metric record (a Python dict) is a function from key    *)
(* strings to values.  A number that the code rounds to 2 decimals is kept *)
(* as an integer count of hundredths (1.0 is 100, 0.5 is 50), so rounding  *)
(* is computed and not assumed.  A multi-word bean name is the sequence of *)
(* its words, so that stripping its whitespace is computed as well.  The   *)
(* result of a routine that can log or raise is a record with the value,  *)
(* the number of collectd.error calls it made and the exception it raised. *)
(***************************************************************************)
EXTENDS Integers, Sequences, FiniteSets, TLC

\* ------------------------------------------------------------------ bounds
\* Largest value a packet counter of the service bean takes.
MaxCount == 1
\* Largest value of the wall clock (epoch seconds).
MaxTime == 1

\* ----------------------------------------------- inputs and fixed universes
\* Values of the configured interval (config(), INTERVAL); 8 makes the
\* quotient of get_rate a decimal that has to be rounded.
Intervals == {1, 8}
\* Process ids the discovery command can print.
Pids == {"111", "222"}
\* Local ports get_free_port can hand out.
Ports == {9001, 9002}
Counts == 0..MaxCount
Times == 0..MaxTime

\* ------------------------------------------------ names of module constants
ZOOK_DOCS == <<"jmxStats", "zookeeperStats">>
DEFAULT_GC == {<<"G1", "Old", "Generation">>, <<"G1", "Young", "Generation">>}
DEFAULT_MP == {<<"G1", "Eden", "Space">>, <<"G1", "Old", "Gen">>,
               <<"G1", "Survivor", "Space">>, <<"Metaspace">>,
               <<"Code", "Cache">>, <<"Compressed", "Class", "Space">>}
\* Keys and values imported by `from constants import *`.
TIMESTAMP == "_documentType_timestamp"
PLUGIN == "_plugin"
PLUGINTYPE == "_documentType"
ACTUALPLUGINTYPE == "_actualPluginType"
PLUGIN_INS == "_pluginInstance"
ZOOK_JMX == "zookeeperjmx"
FLOATING_FACTOR == 2
\* The sentinel get_rate starts from; a rate is the fraction num / den.
NAN == [isnan |-> TRUE, num |-> 0, den |-> 1]

\* ----------------------------------------------------------------- helpers
EmptyDict == << >>
Put(d, k, v) == (k :> v) @@ d
Del(d, k) == [x \in DOMAIN d \ {k} |-> d[x]]
Has(d, k) == k \in DOMAIN d

RECURSIVE Pow10(_)
Pow10(n) == IF n = 0 THEN 1 ELSE 10 * Pow10(n - 1)

\* round(num / den, digits) for num >= 0 and den > 0, as a count of units of
\* 10^-digits; Python 2 rounds a tie away from zero.
Round(num, den, digits) == (2 * num * Pow10(digits) + den) \div (2 * den)

\* round(v * 0.001, 2), in hundredths.
MilliToSec(v) == Round(v, 1000, 2)
\* round(v / 1024.0 / 1024.0, 2), in hundredths.
BytesToMb(v) == Round(v, 1024 * 1024, 2)

\* ''.join(name.split()): the words of a name without the blanks between.
RECURSIVE NoSpaces(_)
NoSpaces(name) == IF name = << >> THEN "" ELSE Head(name) \o NoSpaces(Tail(name))

\* A name with its blanks, as it is printed.
RECURSIVE Spaced(_)
Spaced(name) ==
    IF Len(name) = 0 THEN ""
    ELSE IF Len(name) = 1 THEN name[1]
    ELSE name[1] \o " " \o Spaced(Tail(name))

\* ---------------------------------------------------------- rate calculator
\* A variant of add_default_rate_value whose keylist lacks "packetsSentRate".
add_default_rate_value_short(dict_jmx) ==
    Put(dict_jmx, "packetsReceivedRate", 0)

\* add_default_rate_value(dict_jmx)
add_default_rate_value(dict_jmx) ==
    Put(Put(dict_jmx, "packetsReceivedRate", 0), "packetsSentRate", 0)

\* A variant of get_rate without the `if rate < 0` clamp of lines 192-193.
get_rate_raw(key, curr_data, prev_data, interval) ==
    IF prev_data = EmptyDict
    THEN [val |-> NAN, err |-> 0, exc |-> "none"]
    ELSE IF ~Has(prev_data, key)
            \/ ~Has(curr_data, TIMESTAMP) \/ ~Has(prev_data, TIMESTAMP)
            \/ curr_data[TIMESTAMP] <= prev_data[TIMESTAMP]
    THEN [val |-> NAN, err |-> 1, exc |-> "none"]
    ELSE IF ~Has(curr_data, key)
    THEN [val |-> NAN, err |-> 0, exc |-> "KeyError"]
    ELSE [val |-> [isnan |-> FALSE, num |-> curr_data[key] - prev_data[key],
                   den |-> interval],
          err |-> 0, exc |-> "none"]

\* A variant of get_rate that also logs when there is no previous sample.
get_rate_logged(key, curr_data, prev_data, interval) ==
    IF prev_data = EmptyDict
    THEN [val |-> NAN, err |-> 1, exc |-> "none"]
    ELSE IF ~Has(prev_data, key)
    THEN [val |-> NAN, err |-> 1, exc |-> "none"]
    ELSE IF ~Has(curr_data, TIMESTAMP) \/ ~Has(prev_data, TIMESTAMP)
    THEN [val |-> NAN, err |-> 1, exc |-> "none"]
    ELSE IF curr_data[TIMESTAMP] <= prev_data[TIMESTAMP]
    THEN [val |-> NAN, err |-> 1, exc |-> "none"]
    ELSE IF ~Has(curr_data, key)
    THEN [val |-> NAN, err |-> 0, exc |-> "KeyError"]
    ELSE LET diff == curr_data[key] - prev_data[key]
         IN  [val |-> [isnan |-> FALSE,
                       num |-> IF diff < 0 THEN 0 ELSE diff,
                       den |-> interval],
              err |-> 0, exc |-> "none"]

\* A variant of get_rate with `curr_time < prev_time` at line 186: a sample
\* with the timestamp of the stored one gets a rate and no error.
get_rate_lt(key, curr_data, prev_data, interval) ==
    IF prev_data = EmptyDict
    THEN [val |-> NAN, err |-> 0, exc |-> "none"]
    ELSE IF ~Has(prev_data, key)
    THEN [val |-> NAN, err |-> 1, exc |-> "none"]
    ELSE IF ~Has(curr_data, TIMESTAMP) \/ ~Has(prev_data, TIMESTAMP)
    THEN [val |-> NAN, err |-> 1, exc |-> "none"]
    ELSE IF curr_data[TIMESTAMP] < prev_data[TIMESTAMP]
    THEN [val |-> NAN, err |-> 1, exc |-> "none"]
    ELSE IF ~Has(curr_data, key)
    THEN [val |-> NAN, err |-> 0, exc |-> "KeyError"]
    ELSE LET diff == curr_data[key] - prev_data[key]
         IN  [val |-> [isnan |-> FALSE,
                       num |-> IF diff < 0 THEN 0 ELSE diff,
                       den |-> interval],
              err |-> 0, exc |-> "none"]

\* get_rate(key, curr_data, prev_data) with self.interval
get_rate(key, curr_data, prev_data, interval) ==
    IF prev_data = EmptyDict
    THEN [val |-> NAN, err |-> 0, exc |-> "none"]
    ELSE IF ~Has(prev_data, key)
    THEN [val |-> NAN, err |-> 1, exc |-> "none"]
    ELSE IF ~Has(curr_data, TIMESTAMP) \/ ~Has(prev_data, TIMESTAMP)
    THEN [val |-> NAN, err |-> 1, exc |-> "none"]
    ELSE IF curr_data[TIMESTAMP] <= prev_data[TIMESTAMP]
    THEN [val |-> NAN, err |-> 1, exc |-> "none"]
    ELSE IF ~Has(curr_data, key)
    THEN [val |-> NAN, err |-> 0, exc |-> "KeyError"]
    ELSE LET diff == curr_data[key] - prev_data[key]
         IN  [val |-> [isnan |-> FALSE,
                       num |-> IF diff < 0 THEN 0 ELSE diff,
                       den |-> interval],
              err |-> 0, exc |-> "none"]

\* One half of add_rate: compute the rate of `key` and attach it as `ratekey`.
add_one_rate(key, ratekey, dict_jmx, prev, interval) ==
    LET r == get_rate(key, dict_jmx, prev, interval)
    IN  IF r.exc # "none" THEN [dict |-> dict_jmx, err |-> r.err, exc |-> r.exc]
        ELSE IF r.val # NAN
        THEN [dict |-> Put(dict_jmx, ratekey,
                           Round(r.val.num, r.val.den, FLOATING_FACTOR)),
              err |-> r.err, exc |-> "none"]
        ELSE [dict |-> dict_jmx, err |-> r.err, exc |-> "none"]

\* A variant of add_rate that attaches the default rate 0 where get_rate
\* returned the sentinel.
add_rate_default(dict_jmx, prev, interval) ==
    LET a == add_one_rate("packetsReceived", "packetsReceivedRate", dict_jmx, prev, interval)
        a0 == IF Has(a.dict, "packetsReceivedRate") THEN a.dict
              ELSE Put(a.dict, "packetsReceivedRate", 0)
    IN  IF a.exc # "none" THEN a
        ELSE LET b == add_one_rate("packetsSent", "packetsSentRate", a0, prev, interval)
                 b0 == IF Has(b.dict, "packetsSentRate") \/ b.exc # "none" THEN b.dict
                       ELSE Put(b.dict, "packetsSentRate", 0)
             IN  [dict |-> b0, err |-> a.err + b.err, exc |-> b.exc]

\* add_rate(pid, dict_jmx) with prev = self.prev_data[pid]
add_rate(dict_jmx, prev, interval) ==
    LET a == add_one_rate("packetsReceived", "packetsReceivedRate", dict_jmx, prev, interval)
    IN  IF a.exc # "none" THEN a
        ELSE LET b == add_one_rate("packetsSent", "packetsSentRate", a.dict, prev, interval)
             IN  [dict |-> b.dict, err |-> a.err + b.err, exc |-> b.exc]

\* A variant of dispatch_data that deletes "packetsSent" only.
dispatch_data_one(doc_name, result) ==
    IF doc_name = "zookeeperStats"
    THEN IF Has(result, "packetsSent")
         THEN [sent |-> Del(result, "packetsSent"), exc |-> "none"]
         ELSE [sent |-> EmptyDict, exc |-> "KeyError"]
    ELSE [sent |-> result, exc |-> "none"]

\* dispatch_data(doc_name, result): the record handed to utils.dispatch, or
\* the KeyError of `del result[item]`.
dispatch_data(doc_name, result) ==
    IF doc_name = "zookeeperStats"
    THEN IF Has(result, "packetsSent") /\ Has(result, "packetsReceived")
         THEN [sent |-> Del(Del(result, "packetsSent"), "packetsReceived"),
               exc |-> "none"]
         ELSE [sent |-> EmptyDict, exc |-> "KeyError"]
    ELSE [sent |-> result, exc |-> "none"]

\* A variant of add_rate_dispatch that stores the sample as it was before the
\* rate fields were attached.
add_rate_dispatch_prerate(pid, doc, dict_jmx, prevs, interval) ==
    LET r == IF pid \in DOMAIN prevs
             THEN add_rate(dict_jmx, prevs[pid], interval)
             ELSE [dict |-> add_default_rate_value(dict_jmx), err |-> 0, exc |-> "none"]
    IN  IF r.exc # "none"
        THEN [stored |-> FALSE, entry |-> EmptyDict, sent |-> EmptyDict,
              err |-> r.err, exc |-> r.exc]
        ELSE LET d == dispatch_data(doc, r.dict)
             IN  [stored |-> TRUE, entry |-> dict_jmx, sent |-> d.sent,
                  err |-> r.err, exc |-> d.exc]

\* A variant of add_rate_dispatch without the deepcopy of line 212: the
\* stored dict is the object dispatch_data deletes the raw counters from.
add_rate_dispatch_alias(pid, doc, dict_jmx, prevs, interval) ==
    LET r == IF pid \in DOMAIN prevs
             THEN add_rate(dict_jmx, prevs[pid], interval)
             ELSE [dict |-> add_default_rate_value(dict_jmx), err |-> 0, exc |-> "none"]
    IN  IF r.exc # "none"
        THEN [stored |-> FALSE, entry |-> EmptyDict, sent |-> EmptyDict,
              err |-> r.err, exc |-> r.exc]
        ELSE LET d == dispatch_data(doc, r.dict)
                 after == IF Has(r.dict, "packetsSent")
                          THEN Del(Del(r.dict, "packetsSent"), "packetsReceived")
                          ELSE r.dict
             IN  [stored |-> TRUE, entry |-> after, sent |-> d.sent,
                  err |-> r.err, exc |-> d.exc]

\* add_rate_dispatch(pid, doc, dict_jmx) on the stored state prev_data:
\* `stored` tells whether self.prev_data[pid] was assigned, `entry` its value
\* when the call is over.  dispatch_data works on a deepcopy, so what it
\* deletes from its argument is not deleted from the stored dict.
add_rate_dispatch(pid, doc, dict_jmx, prevs, interval) ==
    LET r == IF pid \in DOMAIN prevs
             THEN add_rate(dict_jmx, prevs[pid], interval)
             ELSE [dict |-> add_default_rate_value(dict_jmx), err |-> 0, exc |-> "none"]
    IN  IF r.exc # "none"
        THEN [stored |-> FALSE, entry |-> EmptyDict, sent |-> EmptyDict,
              err |-> r.err, exc |-> r.exc]
        ELSE LET d == dispatch_data(doc, r.dict)
             IN  [stored |-> TRUE, entry |-> r.dict, sent |-> d.sent,
                  err |-> r.err, exc |-> d.exc]

\* ------------------------------------------------------- metric extractor
\* handle_neg_bytes(value, resultkey, dict_jmx)
handle_neg_bytes(value, resultkey, dict_jmx) ==
    IF value = -1 THEN Put(dict_jmx, resultkey, value)
    ELSE Put(dict_jmx, resultkey, BytesToMb(value))

\* A variant of get_gc_names without the DEFAULT_GC test of line 231.
get_gc_names_all(gc_json) ==
    IF gc_json.status = 200
    THEN [names |-> gc_json.value, unsupported |-> {}]
    ELSE [names |-> {}, unsupported |-> {}]

\* get_gc_names(jolokiaclient): the allow-listed names of the wildcard query
\* and the names it logged as not supported.
get_gc_names(gc_json) ==
    IF gc_json.status = 200
    THEN [names |-> {n \in gc_json.value : n \in DEFAULT_GC},
          unsupported |-> {n \in gc_json.value : n \notin DEFAULT_GC}]
    ELSE [names |-> {}, unsupported |-> {}]

\* get_memory_pool_names(jolokiaclient)
get_memory_pool_names(mempool_json) ==
    IF mempool_json.status = 200
    THEN [names |-> {n \in mempool_json.value : n \in DEFAULT_MP},
          unsupported |-> {n \in mempool_json.value : n \notin DEFAULT_MP}]
    ELSE [names |-> {}, unsupported |-> {}]

\* The default keys add_jmxstats_parameters sets to 0 (param_list).
param_list == {"G1OldGenerationCollectionTime", "G1OldGenerationCollectionCount",
               "G1YoungGenerationCollectionTime", "G1YoungGenerationCollectionCount",
               "G1OldGenUsageUsed", "G1SurvivorSpaceUsageUsed", "MetaspaceUsageUsed",
               "CodeCacheUsageUsed", "CompressedClassSpaceUsageUsed",
               "G1EdenSpaceUsageUsed"}

\* Body of `for gc_name in gc_names` of add_jmxstats_parameters.
jmx_gc_fields(gc_name, r, dict_jmx) ==
    IF r.valid.status = 200 /\ r.valid.value = TRUE /\ r.values.status = 200
    THEN Put(Put(dict_jmx, NoSpaces(gc_name) \o "CollectionTime",
                 MilliToSec(r.values.value.CollectionTime)),
             NoSpaces(gc_name) \o "CollectionCount", r.values.value.CollectionCount)
    ELSE dict_jmx

\* Body of `for pool_name in mp_names` of add_jmxstats_parameters.
jmx_mp_fields(pool_name, r, dict_jmx) ==
    IF r.valid.status = 200 /\ r.valid.value = TRUE /\ r.values.status = 200
    THEN Put(dict_jmx, NoSpaces(pool_name) \o "UsageUsed",
             BytesToMb(r.values.value.used))
    ELSE dict_jmx

\* A loop over a set of names, each adding its fields to the record.
RECURSIVE ForEachName(_, _, _, _)
ForEachName(names, resp, dict_jmx, isGc) ==
    IF names = {} THEN dict_jmx
    ELSE LET n == CHOOSE m \in names : TRUE
             d == IF isGc THEN jmx_gc_fields(n, resp[n], dict_jmx)
                  ELSE jmx_mp_fields(n, resp[n], dict_jmx)
         IN  ForEachName(names \ {n}, resp, d, isGc)

\* add_jmxstats_parameters(jolokiaclient, dict_jmx); `resp` holds the answer
\* of the bridge to each request the routine makes.
add_jmxstats_parameters(resp, dict_jmx) ==
    LET d1 == IF resp.classloading.status = 200
              THEN Put(Put(dict_jmx, "unloadedClass", resp.classloading.value.UnloadedClassCount),
                       "loadedClass", resp.classloading.value.LoadedClassCount)
              ELSE dict_jmx
        d2 == IF resp.thread.status = 200
              THEN Put(d1, "threads", resp.thread.value.ThreadCount)
              ELSE d1
        heap == resp.memory.value.HeapMemoryUsage
        non_heap == resp.memory.value.NonHeapMemoryUsage
        d3 == IF resp.memory.status = 200
              THEN LET h1 == handle_neg_bytes(heap.init, "heapMemoryUsageInit", d2)
                       h2 == Put(h1, "heapMemoryUsageUsed", BytesToMb(heap.used))
                       h3 == Put(h2, "heapMemoryUsageCommitted", BytesToMb(heap.committed))
                       h4 == handle_neg_bytes(non_heap.init, "nonHeapMemoryUsageInit", h3)
                       h5 == Put(h4, "nonHeapMemoryUsageUsed", BytesToMb(non_heap.used))
                   IN  Put(h5, "nonHeapMemoryUsageCommitted", BytesToMb(non_heap.committed))
              ELSE d2
        d4 == [k \in param_list |-> 0] @@ d3
        gc == get_gc_names(resp.gc_list)
        d5 == ForEachName(gc.names, resp.gc, d4, TRUE)
        mp == get_memory_pool_names(resp.mp_list)
        d6 == ForEachName(mp.names, resp.mp, d5, FALSE)
    IN  [dict |-> d6, unsupported_gc |-> gc.unsupported, unsupported_mp |-> mp.unsupported]

\* add_zookeeper_parameters(jolokiaClient, dict_jmx)
add_zookeeper_parameters(resp, dict_jmx) ==
    LET v == resp.svc.value
        d1 == IF resp.svc.status = 200
              THEN ("avgRequestLatency" :> MilliToSec(v.AvgRequestLatency))
                   @@ ("maxSessionTimeout" :> MilliToSec(v.MaxSessionTimeout))
                   @@ ("minSessionTimeout" :> MilliToSec(v.MinSessionTimeout))
                   @@ ("maxClientCnxnsPerHost" :> v.MaxClientCnxnsPerHost)
                   @@ ("numAliveConnections" :> v.NumAliveConnections)
                   @@ ("outstandingRequests" :> v.OutstandingRequests)
                   @@ ("packetsReceived" :> v.PacketsReceived)
                   @@ ("packetsSent" :> v.PacketsSent)
                   @@ ("zookeeperVersion" :> v.Version)
                   @@ dict_jmx
              ELSE dict_jmx
        d2 == IF resp.tree.status = 200
              THEN Put(Put(d1, "nodeCount", resp.tree.value.NodeCount),
                       "watchCount", resp.tree.value.WatchCount)
              ELSE d1
        d3 == IF resp.ephemerals.status = 200
              THEN Put(d2, "countEphemerals", resp.ephemerals.value)
              ELSE d2
    IN  IF resp.datasize.status = 200
        THEN Put(d3, "approximateDataSize", BytesToMb(resp.datasize.value))
        ELSE d3

\* add_common_params(doc, dict_jmx) at wall-clock time `t`
add_common_params(doc, dict_jmx, t) ==
    (TIMESTAMP :> t) @@ (PLUGIN :> ZOOK_JMX) @@ (PLUGINTYPE :> doc)
    @@ (ACTUALPLUGINTYPE :> ZOOK_JMX) @@ (PLUGIN_INS :> doc) @@ dict_jmx

\* connection_available(port): `probe` is the outcome of the GET on the
\* version endpoint, an HTTP status or "ConnectionError".
connection_available(probe) == probe = "200"

\* get_jmx_parameters(port, doc, dict_jmx): the record after the routine of
\* `doc` ran, with the names it logged as not supported.
get_jmx_parameters(probe, doc, resp, dict_jmx) ==
    IF ~connection_available(probe)
    THEN [dict |-> dict_jmx, unsupported_gc |-> {}, unsupported_mp |-> {}]
    ELSE IF doc = "zookeeperStats"
    THEN [dict |-> add_zookeeper_parameters(resp, dict_jmx),
          unsupported_gc |-> {}, unsupported_mp |-> {}]
    ELSE add_jmxstats_parameters(resp, dict_jmx)

\* ------------------------------------------------------ bridge agent manager
DigitChars == <<"0", "1", "2", "3", "4", "5", "6", "7", "8", "9">>
IsDigit(c) == \E i \in 1..10 : DigitChars[i] = c
DigitValue(c) == (CHOOSE i \in 1..10 : DigitChars[i] = c) - 1

\* "%s" % port: the decimal digits of a port number.
RECURSIVE DigitsOf(_)
DigitsOf(n) ==
    IF n < 10 THEN <<DigitChars[n + 1]>>
    ELSE Append(DigitsOf(n \div 10), DigitChars[(n % 10) + 1])

\* The port a digit string denotes in the URL built from it.
RECURSIVE PortOfDigits(_)
PortOfDigits(ds) ==
    IF ds = << >> THEN 0
    ELSE 10 * PortOfDigits(SubSeq(ds, 1, Len(ds) - 1)) + DigitValue(ds[Len(ds)])

\* re.findall('\d+', text): the first maximal run of digits of text, or << >>.
RECURSIVE DigitRun(_)
DigitRun(text) ==
    IF text = << >> \/ ~IsDigit(Head(text)) THEN << >>
    ELSE <<Head(text)>> \o DigitRun(Tail(text))

RECURSIVE FirstDigits(_)
FirstDigits(text) ==
    IF text = << >> THEN << >>
    ELSE IF IsDigit(Head(text)) THEN DigitRun(text)
    ELSE FirstDigits(Tail(text))

\* The stdout of `jolokia status` is a sequence of lines, a line the sequence
\* of its ':'-separated fields, a field a sequence of characters.
\* Lines 122-123 of get_pid_port: the port of the second line, or IndexError.
parse_status(status) ==
    IF Len(status) < 2 THEN [exc |-> "IndexError", port |-> << >>]
    ELSE IF Len(status[2]) < 3 THEN [exc |-> "IndexError", port |-> << >>]
    ELSE IF FirstDigits(status[2][3]) = << >> THEN [exc |-> "IndexError", port |-> << >>]
    ELSE [exc |-> "none", port |-> FirstDigits(status[2][3])]

\* A variant of get_pid_port that does not look at the result of the status
\* command and always allocates a port and starts an agent.
get_pid_port_restart(st, free, sta) ==
    IF sta.err \/ sta.ret # 0
    THEN [ok |-> FALSE, port |-> free, start |-> TRUE, err |-> 1, exc |-> "none"]
    ELSE [ok |-> TRUE, port |-> free, start |-> TRUE, err |-> 0, exc |-> "none"]

\* get_pid_port(pid): `st` is the result of the status command, `free` the
\* port of get_free_port and `sta` the result of the start command.  `ok`
\* is FALSE where the code returns False.
get_pid_port(st, free, sta) ==
    IF st.err \/ st.ret # 0
    THEN IF sta.err \/ sta.ret # 0
         THEN [ok |-> FALSE, port |-> free, start |-> TRUE, err |-> 1, exc |-> "none"]
         ELSE [ok |-> TRUE, port |-> free, start |-> TRUE, err |-> 0, exc |-> "none"]
    ELSE LET p == parse_status(st.out)
         IN  IF p.exc # "none"
             THEN [ok |-> FALSE, port |-> free, start |-> FALSE, err |-> 0, exc |-> p.exc]
             ELSE [ok |-> TRUE, port |-> PortOfDigits(p.port), start |-> FALSE,
                   err |-> 0, exc |-> "none"]

\* A variant of check_prerequiste that logs the error and falls through to
\* `return True`.
check_prerequiste_through(euid) ==
    IF ~(euid = 0) THEN [ok |-> TRUE, err |-> 1] ELSE [ok |-> TRUE, err |-> 0]

\* check_prerequiste(): `euid` is os.geteuid(); `err` counts collectd.error calls.
check_prerequiste(euid) ==
    IF ~(euid = 0) THEN [ok |-> FALSE, err |-> 1] ELSE [ok |-> TRUE, err |-> 0]

\* get_pid(): the first word of every line the discovery command printed, or
\* FALSE (ok = FALSE) when it wrote to stderr.
get_pid(res) ==
    IF res.err THEN [ok |-> FALSE, pids |-> << >>]
    ELSE [ok |-> TRUE, pids |-> [i \in 1..Len(res.lines) |-> res.lines[i][1]]]

\* ------------------------------------------------------------------- inputs
StatusAttached(port) ==
    << << <<"J", "o", "l", "o", "k", "i", "a">> >>,
       << <<"h", "t", "t", "p">>, <<"/", "/", "1", "2", "7", ".", "0", ".", "0", ".", "1">>,
          DigitsOf(port) \o <<"/", "j", "o", "l", "o", "k", "i", "a", "/">> >> >>
\* Outputs of a status command that exits 0 without the expected two lines.
StatusMalformed == { << >>, << << <<"J">> >> >> }
CmdFailures == {[out |-> << >>, err |-> TRUE, ret |-> 0],
                [out |-> << >>, err |-> FALSE, ret |-> 1],
                [out |-> << >>, err |-> TRUE, ret |-> 1]}
CmdSuccess(out) == [out |-> out, err |-> FALSE, ret |-> 0]

\* Effective user ids the plugin runs under.
Euids == {0, 1000}
\* Results of the discovery pipeline of get_pid.
DiscoverResults ==
    {[err |-> TRUE, lines |-> << >>]}
    \cup {[err |-> FALSE, lines |-> l] :
            l \in {<< >>, << <<"111", "zookeeper">> >>,
                   << <<"111", "zookeeper">>, <<"222", "zookeeper">> >>}}

ServiceBean(pr, ps) ==
    [AvgRequestLatency |-> 2504, MaxSessionTimeout |-> 40000, MinSessionTimeout |-> 4000,
     MaxClientCnxnsPerHost |-> 60, NumAliveConnections |-> 1, OutstandingRequests |-> 0,
     PacketsReceived |-> pr, PacketsSent |-> ps, Version |-> "3.4.13"]
TreeBean == [NodeCount |-> 5, WatchCount |-> 0]
NotFound == [status |-> 404, value |-> << >>]
Ok(v) == [status |-> 200, value |-> v]

\* Answers of the bridge to the four requests of add_zookeeper_parameters.
ZkResponse(svc, rest) ==
    [svc |-> svc,
     tree |-> IF rest THEN Ok(TreeBean) ELSE [status |-> 404, value |-> TreeBean],
     ephemerals |-> IF rest THEN Ok(2) ELSE [status |-> 404, value |-> 0],
     datasize |-> IF rest THEN Ok(2) ELSE [status |-> 404, value |-> 0]]
CounterPairs == {c \in Counts \X Counts : c[1] + c[2] <= MaxCount}
SvcAnswers == {Ok(ServiceBean(c[1], c[2])) : c \in CounterPairs}
SvcNotFound == [status |-> 404, value |-> ServiceBean(0, 0)]
\* The answers the cycle model draws from: the full record, the record without
\* the service bean, and no bean at all.  Process "222" is an idle member of
\* the ensemble: its packet counters stay at 0.
ZkResponses(pid) ==
    {ZkResponse(svc, TRUE) :
        svc \in IF pid = "111" THEN SvcAnswers ELSE {Ok(ServiceBean(0, 0))}}
    \cup {ZkResponse(SvcNotFound, rest) : rest \in BOOLEAN}
\* The answers the extraction model draws from.
ZkResponsesAll ==
    {ZkResponse(svc, rest) : svc \in SvcAnswers \cup {SvcNotFound}, rest \in BOOLEAN}

GcValues == [CollectionTime |-> 1234, CollectionCount |-> 7]
MpUsage == [used |-> 3 * 1024 * 1024 + 524288]
MemoryBean(init) ==
    [HeapMemoryUsage |-> [init |-> init, used |-> 2 * 1024 * 1024, committed |-> 4 * 1024 * 1024],
     NonHeapMemoryUsage |-> [init |-> init, used |-> 1024 * 1024, committed |-> 1024 * 1024]]
Answer(ok, v) == [status |-> IF ok THEN 200 ELSE 404, value |-> v]

\* Answers of the bridge to the requests of add_jmxstats_parameters: `core`
\* the status of the three fixed beans, `gcs` and `mps` the names the two
\* wildcard queries return, `valid` the Valid flag and `values` the status of
\* the per-name reads.
JmxResponse(core, gcs, mps, valid, values, init) ==
    [classloading |-> Answer(core, [UnloadedClassCount |-> 0, LoadedClassCount |-> 3000]),
     thread |-> Answer(core, [ThreadCount |-> 20]),
     memory |-> Answer(core, MemoryBean(init)),
     gc_list |-> Ok(gcs),
     gc |-> [n \in gcs |-> [valid |-> Ok(valid), values |-> Answer(values, GcValues)]],
     mp_list |-> Ok(mps),
     mp |-> [n \in mps |-> [valid |-> Ok(valid), values |-> Answer(values, MpUsage)]]]

\* Names other JVM collectors report, outside DEFAULT_GC and DEFAULT_MP.
OtherGc == {<<"PS", "Scavenge">>}
OtherMp == {<<"PS", "Eden", "Space">>}

\* The answers the cycle model draws from.
JmxResponses == {JmxResponse(TRUE, DEFAULT_GC, DEFAULT_MP, TRUE, TRUE, 1024 * 1024)}
\* The answers the extraction model draws from.
JmxResponsesAll ==
    {JmxResponse(core, gcs, mps, valid, values, init) :
        core \in BOOLEAN,
        gcs \in {{}, {<<"G1", "Young", "Generation">>}, OtherGc,
                 {<<"G1", "Young", "Generation">>} \cup OtherGc, DEFAULT_GC \cup OtherGc},
        mps \in {{}, {<<"G1", "Old", "Gen">>}, OtherMp,
                 {<<"G1", "Old", "Gen">>} \cup OtherMp, DEFAULT_MP \cup OtherMp},
        valid \in BOOLEAN, values \in BOOLEAN, init \in {-1, 1024 * 1024}}

Responses(pid, doc) == IF doc = "zookeeperStats" THEN ZkResponses(pid) ELSE JmxResponses
ResponsesAll(doc) == IF doc = "zookeeperStats" THEN ZkResponsesAll ELSE JmxResponsesAll
Probes == {"200", "500", "ConnectionError"}

\* A zookeeperStats sample as get_rate sees it: the common parameters with or
\* without the timestamp, and each raw counter present or not.
RateSample(hasT, t, hasR, pr, hasS, ps) ==
    (IF hasT THEN (TIMESTAMP :> t) ELSE EmptyDict)
    @@ (IF hasR THEN ("packetsReceived" :> pr) ELSE EmptyDict)
    @@ (IF hasS THEN ("packetsSent" :> ps) ELSE EmptyDict)
    @@ (PLUGIN :> ZOOK_JMX) @@ (PLUGINTYPE :> "zookeeperStats")
RateSamples ==
    {RateSample(hasT, t, hasR, pr, hasS, ps) :
        hasT \in BOOLEAN, t \in Times, hasR \in BOOLEAN, pr \in Counts,
        hasS \in BOOLEAN, ps \in Counts}

\* -------------------------------------------------------------------- state
VARIABLES
    interval,     \* self.interval
    prev_data,    \* self.prev_data: pid -> the stored zookeeperStats sample
    agent,        \* pid -> port of the bridge agent attached to the process
    now,          \* the wall clock, int(round(time.time()))
    pc,           \* position of collect_jmx_data: "idle", "spawn", "drain"
    list_pid,     \* list_pid of the running cycle
    idx,          \* index of the next pid of the loop of run_pid_process
    procs,        \* pids of the workers started, in start order
    wpc,          \* pid -> index of the next doc of its worker (0: no worker)
    wport,        \* pid -> port handed to its worker
    output,       \* the multiprocessing.Queue of (pid, doc, dict_jmx) tuples
    drained,      \* iterations of the drain loop done
    outcome,      \* of the last cycle: "none", "running", "returned" or an exception
    errlog,       \* collectd.error calls of the cycle: <<kind, pid, doc>> -> count
    cmds,         \* commands run in the cycle: name -> count
    dispatched,   \* utils.dispatch calls of the cycle: <<pid, doc>> -> count
    last_drain,   \* what the last iteration of the drain loop did
    last_port,    \* pid -> the last two get_pid_port calls of the agent manager
    last_extract, \* the inputs of the last worker step of the extraction model
    last_rate     \* the arguments and the result of the last get_rate call made alone

vars == <<interval, prev_data, agent, now, pc, list_pid, idx, procs, wpc, wport,
          output, drained, outcome, errlog, cmds, dispatched, last_drain, last_port,
          last_extract, last_rate>>

NDocs == Len(ZOOK_DOCS)
WorkerDone == NDocs + 1
Count(f, k) == IF k \in DOMAIN f THEN f[k] ELSE 0
Incr(f, k) == Put(f, k, Count(f, k) + 1)
RECURSIVE IncrAll(_, _)
IncrAll(f, ks) ==
    IF ks = {} THEN f
    ELSE LET k == CHOOSE e \in ks : TRUE IN IncrAll(Incr(f, k), ks \ {k})
RECURSIVE Total(_)
Total(f) ==
    IF DOMAIN f = {} THEN 0
    ELSE LET k == CHOOSE e \in DOMAIN f : TRUE IN f[k] + Total(Del(f, k))
Kind(f, kind) == Total([k \in {e \in DOMAIN f : e[1] = kind} |-> f[k]])

NoDrain == [kind |-> "none"]
NoExtract == [pid |-> "-"]
NoCall == [ok |-> FALSE, status_ok |-> FALSE, port |-> 0, start |-> FALSE]
NoRate == [key |-> "-"]

Init ==
    /\ interval \in Intervals
    /\ prev_data = EmptyDict
    /\ agent = EmptyDict
    /\ now = 0
    /\ pc = "idle"
    /\ list_pid = << >>
    /\ idx = 1
    /\ procs = << >>
    /\ wpc = [p \in Pids |-> 0]
    /\ wport = [p \in Pids |-> 0]
    /\ output = << >>
    /\ drained = 0
    /\ outcome = "none"
    /\ errlog = EmptyDict
    /\ cmds = EmptyDict
    /\ dispatched = EmptyDict
    /\ last_drain = NoDrain
    /\ last_port = [p \in Pids |-> <<NoCall, NoCall>>]
    /\ last_extract = NoExtract
    /\ last_rate = NoRate

\* ------------------------------------------------------------- orchestrator
\* collect_jmx_data, lines 526-532: check_prerequiste and get_pid.  `euid`
\* is os.geteuid() and `res` the result of the discovery command.
Discover ==
    /\ pc = "idle"
    /\ \E euid \in Euids, res \in DiscoverResults :
         LET pre == check_prerequiste(euid)
             root == pre.ok
             found == get_pid(res)
             fails == ~root \/ ~found.ok \/ found.pids = << >>
             log0 == IF pre.err > 0 THEN Incr(EmptyDict, <<"root", "-", "-">>) ELSE EmptyDict
         IN  /\ errlog' = IF ~root THEN log0
                          ELSE IF ~found.ok
                          THEN Incr(Incr(log0, <<"pid", "-", "-">>), <<"noproc", "-", "-">>)
                          ELSE IF found.pids = << >>
                          THEN Incr(log0, <<"noproc", "-", "-">>)
                          ELSE log0
             /\ cmds' = IF root THEN Incr(EmptyDict, "discover") ELSE EmptyDict
             /\ pc' = IF fails THEN "idle" ELSE "spawn"
             /\ outcome' = IF fails THEN "returned" ELSE "running"
             /\ list_pid' = IF fails THEN << >> ELSE found.pids
    /\ idx' = 1
    /\ procs' = << >>
    /\ wpc' = [p \in Pids |-> 0]
    /\ wport' = [p \in Pids |-> 0]
    /\ output' = << >>
    /\ drained' = 0
    /\ dispatched' = EmptyDict
    /\ last_drain' = NoDrain
    /\ UNCHANGED <<interval, prev_data, agent, now, last_port, last_extract, last_rate>>

Range(f) == {f[k] : k \in DOMAIN f}
StatusResults(pid) ==
    IF pid \in DOMAIN agent
    THEN {CmdSuccess(StatusAttached(agent[pid]))} \cup {CmdSuccess(m) : m \in StatusMalformed}
    ELSE CmdFailures
StartResults == {CmdSuccess(<< >>)} \cup CmdFailures

\* run_pid_process, lines 511-516: one iteration of `for pid in list_pid`.
\* An IndexError of get_pid_port leaves collect_jmx_data; the workers already
\* started then write to a queue nobody reads and are dropped from the state.
Spawn ==
    /\ pc = "spawn"
    /\ idx <= Len(list_pid)
    /\ LET pid == list_pid[idx] IN
       \E st \in StatusResults(pid), free \in Ports \ Range(agent), sta \in StartResults :
         LET r == get_pid_port(st, free, sta)
         IN  /\ cmds' = IF r.start THEN Incr(Incr(cmds, "status"), "start")
                        ELSE Incr(cmds, "status")
             /\ agent' = IF r.start /\ r.ok THEN Put(agent, pid, free) ELSE agent
             /\ errlog' = IF r.err > 0 THEN Incr(errlog, <<"start", pid, "-">>) ELSE errlog
             /\ IF r.exc # "none"
                THEN /\ pc' = "idle"
                     /\ outcome' = r.exc
                     /\ wpc' = [p \in Pids |-> 0]
                     /\ UNCHANGED <<idx, procs, wport>>
                ELSE /\ idx' = idx + 1
                     /\ IF r.ok
                        THEN /\ procs' = Append(procs, pid)
                             /\ wpc' = [wpc EXCEPT ![pid] = 1]
                             /\ wport' = [wport EXCEPT ![pid] = r.port]
                        ELSE UNCHANGED <<procs, wpc, wport>>
                     /\ UNCHANGED <<pc, outcome>>
    /\ UNCHANGED <<interval, prev_data, now, list_pid, output, drained, dispatched,
                   last_drain, last_port, last_extract, last_rate>>

\* A variant of Join without the proc.join() loop: the drain loop is entered
\* as soon as the last worker was started.
Join_nowait ==
    /\ pc = "spawn"
    /\ idx > Len(list_pid)
    /\ pc' = "drain"
    /\ UNCHANGED <<interval, prev_data, agent, now, list_pid, idx, procs, wpc, wport,
                   output, drained, outcome, errlog, cmds, dispatched, last_drain,
                   last_port, last_extract, last_rate>>

\* run_pid_process, lines 518-519: every started worker is joined.
Join ==
    /\ pc = "spawn"
    /\ idx > Len(list_pid)
    /\ \A i \in 1..Len(procs) : wpc[procs[i]] = WorkerDone
    /\ pc' = "drain"
    /\ UNCHANGED <<interval, prev_data, agent, now, list_pid, idx, procs, wpc, wport,
                   output, drained, outcome, errlog, cmds, dispatched, last_drain,
                   last_port, last_extract, last_rate>>

\* collect_jmx_data, lines 535-546: one iteration of the drain loop.
Drain ==
    /\ pc = "drain"
    /\ drained < Len(procs) * NDocs
    /\ drained' = drained + 1
    /\ IF output = << >>
       THEN /\ errlog' = Incr(errlog, <<"lost", "-", "-">>)
            /\ last_drain' = [kind |-> "lost"]
            /\ UNCHANGED <<output, prev_data, dispatched, pc, outcome>>
       ELSE LET t == Head(output)
                rated == t.doc = "zookeeperStats"
                r == IF rated
                     THEN add_rate_dispatch(t.pid, t.doc, t.dict, prev_data, interval)
                     ELSE LET d == dispatch_data(t.doc, t.dict)
                          IN  [stored |-> FALSE, entry |-> EmptyDict, sent |-> d.sent,
                               err |-> 0, exc |-> d.exc]
            IN  /\ output' = Tail(output)
                /\ prev_data' = IF r.stored THEN Put(prev_data, t.pid, r.entry) ELSE prev_data
                /\ dispatched' = IF r.exc = "none" THEN Incr(dispatched, <<t.pid, t.doc>>)
                                 ELSE dispatched
                /\ errlog' = IF r.err > 0
                             THEN Put(errlog, <<"rate", t.pid, "-">>,
                                      Count(errlog, <<"rate", t.pid, "-">>) + r.err)
                             ELSE errlog
                /\ last_drain' = [kind |-> IF rated THEN "rate" ELSE "plain",
                                  pid |-> t.pid, doc |-> t.doc, dict |-> t.dict,
                                  first |-> t.pid \notin DOMAIN prev_data,
                                  prev |-> IF t.pid \in DOMAIN prev_data
                                           THEN prev_data[t.pid] ELSE EmptyDict,
                                  stored |-> r.stored,
                                  sent |-> r.exc = "none", out |-> r.sent, exc |-> r.exc]
                /\ pc' = IF r.exc = "none" THEN pc ELSE "idle"
                /\ outcome' = IF r.exc = "none" THEN outcome ELSE r.exc
    /\ UNCHANGED <<interval, agent, now, list_pid, idx, procs, wpc, wport, cmds,
                   last_port, last_extract, last_rate>>

\* collect_jmx_data, lines 535-546, as a function: `n` iterations of the
\* drain loop on the queue `q` and the stored state `prevs`.  The result is
\* the stored state afterwards, the set of records handed to utils.dispatch
\* and the exception that ended the loop.
RECURSIVE drain_loop(_, _, _, _)
drain_loop(q, n, prevs, itv) ==
    IF n = 0 THEN [prev |-> prevs, sent |-> {}, exc |-> "none"]
    ELSE IF q = << >> THEN drain_loop(q, n - 1, prevs, itv)
    ELSE LET t == Head(q)
             r == IF t.doc = "zookeeperStats"
                  THEN add_rate_dispatch(t.pid, t.doc, t.dict, prevs, itv)
                  ELSE LET d == dispatch_data(t.doc, t.dict)
                       IN  [stored |-> FALSE, entry |-> EmptyDict, sent |-> d.sent,
                            err |-> 0, exc |-> d.exc]
             after == IF r.stored THEN Put(prevs, t.pid, r.entry) ELSE prevs
         IN  IF r.exc # "none" THEN [prev |-> after, sent |-> {}, exc |-> r.exc]
             ELSE LET rest == drain_loop(Tail(q), n - 1, after, itv)
                  IN  [prev |-> rest.prev,
                       sent |-> {[pid |-> t.pid, doc |-> t.doc, out |-> r.sent]}
                                \cup rest.sent,
                       exc |-> rest.exc]

\* collect_jmx_data, line 547: the loop is over, output.close() and return.
Finish ==
    /\ pc = "drain"
    /\ drained = Len(procs) * NDocs
    /\ pc' = "idle"
    /\ outcome' = "returned"
    /\ UNCHANGED <<interval, prev_data, agent, now, list_pid, idx, procs, wpc, wport,
                   output, drained, errlog, cmds, dispatched, last_drain, last_port, last_extract, last_rate>>

\* ------------------------------------------------------------------ workers
\* Outcomes of the probe of connection_available for the worker of `p`.
ProbesFor(p) ==
    IF p \in DOMAIN agent /\ agent[p] = wport[p] THEN Probes ELSE {"ConnectionError"}

\* A variant of next_doc for a try statement around the loop instead of
\* inside it: the first failure ends the worker.
next_doc_abort(i, failed) == IF failed THEN WorkerDone ELSE i + 1

\* The doc index of a worker after the iteration of index `i`: the except
\* clause of line 504 is inside the loop, so a failure does not leave it.
next_doc(i, failed) == i + 1

\* get_pid_jmx_stats, lines 494-505: one iteration of `for doc in ZOOK_DOCS`
\* in the worker of `p`.  `probe` is the outcome of connection_available's
\* request, `resp` the answers of the bridge and `raises` tells whether a
\* request of the routine raised.
Extract(p, probe, resp, raises) ==
    /\ wpc[p] \in 1..NDocs
    /\ LET doc == ZOOK_DOCS[wpc[p]]
           r == get_jmx_parameters(probe, doc, resp, EmptyDict)
           names == {<<"gc", p, Spaced(n)>> : n \in r.unsupported_gc}
                    \cup {<<"mp", p, Spaced(n)>> : n \in r.unsupported_mp}
           failed == raises \/ r.dict = EmptyDict
       IN  /\ errlog' = IF raises THEN Incr(errlog, <<"collect", p, doc>>)
                        ELSE IF failed
                        THEN Incr(IncrAll(errlog, names), <<"collect", p, doc>>)
                        ELSE IncrAll(errlog, names)
           /\ output' = IF failed THEN output
                        ELSE Append(output, [pid |-> p, doc |-> doc,
                                             dict |-> add_common_params(doc, r.dict, now)])
           /\ wpc' = [wpc EXCEPT ![p] = next_doc(wpc[p], failed)]
    /\ UNCHANGED <<interval, prev_data, agent, now, pc, list_pid, idx, procs, wport,
                   drained, outcome, cmds, dispatched, last_drain, last_port, last_rate>>

\* A worker step of the cycle model.
Worker(p) ==
    /\ wpc[p] \in 1..NDocs
    /\ \E probe \in ProbesFor(p), resp \in Responses(p, ZOOK_DOCS[wpc[p]]),
          raises \in BOOLEAN : Extract(p, probe, resp, raises)
    /\ UNCHANGED last_extract

\* A worker step of the extraction model: every answer of the bridge, and the
\* inputs of the step kept.
WorkerAll(p) ==
    /\ wpc[p] \in 1..NDocs
    /\ \E probe \in ProbesFor(p), resp \in ResponsesAll(ZOOK_DOCS[wpc[p]]),
          raises \in BOOLEAN :
         /\ Extract(p, probe, resp, raises)
         /\ last_extract' = [pid |-> p, doc |-> ZOOK_DOCS[wpc[p]], probe |-> probe,
                             resp |-> resp, raises |-> raises]

\* -------------------------------------------------------------- environment
\* The wall clock advances; a cycle is short against its one-second grain,
\* so the samples of one cycle carry one timestamp.
Tick ==
    /\ pc = "idle"
    /\ now < MaxTime
    /\ now' = now + 1
    /\ UNCHANGED <<interval, prev_data, agent, pc, list_pid, idx, procs, wpc, wport,
                   output, drained, outcome, errlog, cmds, dispatched, last_drain,
                   last_port, last_extract, last_rate>>

\* The bridge agent of a process goes away (the JVM it is attached to exits).
AgentStops(p) ==
    /\ p \in DOMAIN agent
    /\ agent' = Del(agent, p)
    /\ UNCHANGED <<interval, prev_data, now, pc, list_pid, idx, procs, wpc, wport,
                   output, drained, outcome, errlog, cmds, dispatched, last_drain,
                   last_port, last_extract, last_rate>>

\* get_pid_port(pid) called on its own, as line 512 calls it.
EnsureAgent(pid) ==
    /\ \E st \in StatusResults(pid), free \in Ports \ Range(agent), sta \in StartResults :
         LET r == get_pid_port(st, free, sta)
             call == [ok |-> r.ok /\ r.exc = "none", status_ok |-> ~(st.err \/ st.ret # 0),
                      port |-> r.port, start |-> r.start]
         IN  /\ agent' = IF r.start /\ r.ok THEN Put(agent, pid, free) ELSE agent
             /\ last_port' = [last_port EXCEPT ![pid] = <<last_port[pid][2], call>>]
             /\ cmds' = IF r.start THEN Incr(Incr(EmptyDict, "status"), "start")
                        ELSE Incr(EmptyDict, "status")
    /\ UNCHANGED <<interval, prev_data, now, pc, list_pid, idx, procs, wpc, wport,
                   output, drained, outcome, errlog, dispatched, last_drain, last_extract, last_rate>>

Next ==
    \/ Discover
    \/ Spawn
    \/ Join
    \/ Drain
    \/ Finish
    \/ \E p \in Pids : Worker(p)
    \/ Tick

Spec == Init /\ [][Next]_vars

\* The bridge agent manager on its own: get_pid_port called again and again
\* while agents come and go.
NextAgent ==
    \/ \E p \in Pids : EnsureAgent(p)
    \/ \E p \in Pids : AgentStops(p)

SpecAgent == Init /\ [][NextAgent]_vars

\* The metric extractor on its own: the worker of a cycle that found process
\* "111" and started an agent and a worker for it, against every answer of the
\* bridge.
InitExtract ==
    /\ interval \in Intervals
    /\ prev_data = EmptyDict
    /\ agent = ("111" :> 9001)
    /\ now = 0
    /\ pc = "spawn"
    /\ list_pid = <<"111">>
    /\ idx = Len(list_pid) + 1
    /\ procs = <<"111">>
    /\ wpc = [p \in Pids |-> IF p = "111" THEN 1 ELSE 0]
    /\ wport = [p \in Pids |-> IF p = "111" THEN 9001 ELSE 0]
    /\ output = << >>
    /\ drained = 0
    /\ outcome = "running"
    /\ errlog = EmptyDict
    /\ cmds = ("discover" :> 1) @@ ("status" :> 1) @@ ("start" :> 1)
    /\ dispatched = EmptyDict
    /\ last_drain = NoDrain
    /\ last_port = [p \in Pids |-> <<NoCall, NoCall>>]
    /\ last_extract = NoExtract
    /\ last_rate = NoRate

NextExtract == \E p \in Pids : WorkerAll(p)

SpecExtract == InitExtract /\ [][NextExtract]_vars

\* The rate calculator on its own: get_rate is handed a counter name, a
\* current sample and a previous sample, which is empty when there is none.
InitRate ==
    /\ interval \in Intervals
    /\ prev_data = EmptyDict
    /\ agent = EmptyDict
    /\ now = 0
    /\ pc = "idle"
    /\ list_pid = << >>
    /\ idx = 1
    /\ procs = << >>
    /\ wpc = [p \in Pids |-> 0]
    /\ wport = [p \in Pids |-> 0]
    /\ output = << >>
    /\ drained = 0
    /\ outcome = "none"
    /\ errlog = EmptyDict
    /\ cmds = EmptyDict
    /\ dispatched = EmptyDict
    /\ last_drain = NoDrain
    /\ last_port = [p \in Pids |-> <<NoCall, NoCall>>]
    /\ last_extract = NoExtract
    /\ \E key \in {"packetsReceived", "packetsSent"}, curr \in RateSamples,
          prev \in RateSamples \cup {EmptyDict} :
         last_rate = [key |-> key, curr |-> curr, prev |-> prev, done |-> FALSE,
                      val |-> NAN, err |-> 0, exc |-> "none"]

\* get_rate(key, curr_data, prev_data) called with the arguments of the state.
RateCall ==
    /\ last_rate.key # "-"
    /\ ~last_rate.done
    /\ LET r == get_rate(last_rate.key, last_rate.curr, last_rate.prev, interval)
       IN  last_rate' = [last_rate EXCEPT !.done = TRUE, !.val = r.val,
                                          !.err = r.err, !.exc = r.exc]
    /\ UNCHANGED <<interval, prev_data, agent, now, pc, list_pid, idx, procs, wpc, wport,
                   output, drained, outcome, errlog, cmds, dispatched, last_drain,
                   last_port, last_extract>>

NextRate == RateCall

SpecRate == InitRate /\ [][NextRate]_vars

\* ---------------------------------------------------------------- properties
RateKeys == {<<"packetsReceived", "packetsReceivedRate">>, <<"packetsSent", "packetsSentRate">>}
Rated == last_drain.kind = "rate"

\* C1: first-sample policy.  When add_rate_dispatch ran for a pid without an
\* entry in prev_data, the record it handed to dispatch carries
\* packetsReceivedRate = 0 and packetsSentRate = 0, and prev_data now holds an
\* entry for that pid that agrees with the current sample on all its fields.
C1_FirstSample ==
    (Rated /\ last_drain.first) =>
        /\ last_drain.stored
        /\ last_drain.pid \in DOMAIN prev_data
        /\ \A k \in DOMAIN last_drain.dict :
             /\ Has(prev_data[last_drain.pid], k)
             /\ prev_data[last_drain.pid][k] = last_drain.dict[k]
        /\ last_drain.sent =>
             /\ Has(last_drain.out, "packetsReceivedRate")
             /\ Has(last_drain.out, "packetsSentRate")
             /\ last_drain.out["packetsReceivedRate"] = 0
             /\ last_drain.out["packetsSentRate"] = 0

\* A first sample of process "222" was stored and dispatched while process
\* "111" already had prior state.
C1_Witness ==
    /\ Rated
    /\ last_drain.first
    /\ last_drain.sent
    /\ last_drain.pid = "222"
    /\ "111" \in DOMAIN prev_data
    /\ last_drain.out["packetsSentRate"] = 0

\* The case of C2 for one counter: the process has prior state, both samples
\* carry the counter and a timestamp, and the current timestamp is greater.
RateCase(key) ==
    /\ Rated
    /\ ~last_drain.first
    /\ Has(last_drain.dict, key)
    /\ Has(last_drain.prev, key)
    /\ Has(last_drain.dict, TIMESTAMP)
    /\ Has(last_drain.prev, TIMESTAMP)
    /\ last_drain.dict[TIMESTAMP] > last_drain.prev[TIMESTAMP]

\* r hundredths is num / den rounded to 2 decimals: within half a hundredth.
IsRounded(r, num, den) ==
    /\ 2 * (100 * num - r * den) <= den
    /\ 2 * (r * den - 100 * num) <= den

\* C2: in the case RateCase the rate attached for a counter, in the stored
\* and in the dispatched record, is (current - previous) / interval rounded to
\* 2 decimals when current >= previous, 0 when current < previous, and never
\* negative.
C2_Rate ==
    \A kr \in RateKeys :
        RateCase(kr[1]) =>
            LET c == last_drain.dict[kr[1]]
                p == last_drain.prev[kr[1]]
                entry == prev_data[last_drain.pid]
            IN  /\ last_drain.stored
                /\ last_drain.sent
                /\ Has(entry, kr[2])
                /\ Has(last_drain.out, kr[2])
                /\ last_drain.out[kr[2]] = entry[kr[2]]
                /\ entry[kr[2]] >= 0
                /\ c >= p => IsRounded(entry[kr[2]], c - p, interval)
                /\ c < p => entry[kr[2]] = 0

\* One drain step computed a rate that needed rounding for a counter that
\* grew and the rate 0 for a counter that was reset.
C2_Witness ==
    /\ RateCase("packetsReceived")
    /\ RateCase("packetsSent")
    /\ interval = 8
    /\ last_drain.dict["packetsReceived"] > last_drain.prev["packetsReceived"]
    /\ last_drain.dict["packetsSent"] < last_drain.prev["packetsSent"]
    /\ last_drain.out["packetsReceivedRate"] = 13
    /\ last_drain.out["packetsSentRate"] = 0

\* C3: a zookeeperStats record handed to utils.dispatch contains neither
\* packetsReceived nor packetsSent and is otherwise the record with its rate
\* fields; a record of another category is handed over as it was queued.
C3_Stripped ==
    (last_drain.kind \in {"rate", "plain"} /\ last_drain.sent) =>
        IF last_drain.doc = "zookeeperStats"
        THEN /\ ~Has(last_drain.out, "packetsReceived")
             /\ ~Has(last_drain.out, "packetsSent")
             /\ \A k \in DOMAIN last_drain.dict \ {"packetsReceived", "packetsSent"} :
                  Has(last_drain.out, k) /\ last_drain.out[k] = last_drain.dict[k]
        ELSE last_drain.out = last_drain.dict

\* A zookeeperStats record that was queued with both raw counters has been
\* dispatched, after a jmxStats record was forwarded in the same cycle.
C3_Witness ==
    /\ Rated
    /\ last_drain.sent
    /\ Has(last_drain.dict, "packetsReceived")
    /\ Has(last_drain.dict, "packetsSent")
    /\ Count(dispatched, <<last_drain.pid, "jmxStats">>) = 1
Lost == Count(errlog, <<"lost", "-", "-">>)
CycleOver == pc = "idle" /\ outcome \notin {"none", "running"}

\* C4: a cycle that entered the drain loop makes Len(procs) * NDocs pull
\* attempts, each one either dispatching a record or logging one lost-result
\* error: when the cycle is over, records dispatched + lost-result errors =
\* workers started * categories.
C4_DrainCount ==
    (CycleOver /\ list_pid # << >> /\ outcome \in {"returned", "KeyError"}) =>
        /\ drained = Len(procs) * NDocs
        /\ Total(dispatched) + Lost = Len(procs) * NDocs

\* C5: no exception leaves collect_jmx_data: every cycle returns normally.
C5_NoEscape == outcome \in {"none", "running", "returned"}

DiscoverFailed ==
    Count(errlog, <<"root", "-", "-">>) > 0 \/ Count(errlog, <<"noproc", "-", "-">>) > 0

\* C6: a step that starts a cycle either enters run_pid_process or logs an
\* error; and a step that logs the no-privilege or the no-process error ends
\* the cycle at once: collect_jmx_data has returned, no status or start command
\* was run, no worker started, nothing queued or dispatched, and prev_data is
\* what it was; with the no-privilege error the discovery command was not run.
C6_DiscoverFails ==
    [][/\ (pc = "idle" /\ pc' = "idle" /\ now' = now) => DiscoverFailed'
       /\ (pc = "idle" /\ DiscoverFailed') =>
            /\ pc' = "idle"
            /\ outcome' = "returned"
            /\ Count(cmds', "status") = 0
            /\ Count(cmds', "start") = 0
            /\ procs' = << >>
            /\ \A p \in Pids : wpc'[p] = 0
            /\ output' = << >>
            /\ dispatched' = EmptyDict
            /\ prev_data' = prev_data
            /\ Count(errlog', <<"root", "-", "-">>) > 0 => cmds' = EmptyDict]_vars

\* A cycle was refused for lack of privilege while prev_data held the sample
\* of an earlier cycle.
C6_Witness ==
    /\ CycleOver
    /\ Count(errlog, <<"root", "-", "-">>) = 1
    /\ cmds = EmptyDict
    /\ "111" \in DOMAIN prev_data

\* C7: a start command is issued only by a call whose status command failed;
\* a call whose status command succeeded returns the port the agent is bound
\* to; so of two successive calls for a pid whose status commands both
\* succeeded the second returns the port of the first and starts nothing.
C7_Idempotent ==
    \A p \in Pids :
        LET a == last_port[p][1]
            b == last_port[p][2]
        IN  /\ a.start => ~a.status_ok
            /\ b.start => ~b.status_ok
            /\ (b.ok /\ b.status_ok /\ p \in DOMAIN agent) => b.port = agent[p]
            /\ (a.ok /\ a.status_ok /\ b.ok /\ b.status_ok) =>
                 (b.port = a.port /\ ~b.start)

\* Two successive calls for process "222" found its agent running on 9002.
C7_Witness ==
    LET a == last_port["222"][1]
        b == last_port["222"][2]
    IN  /\ a.ok /\ a.status_ok /\ ~a.start
        /\ b.ok /\ b.status_ok /\ ~b.start
        /\ b.port = 9002

Skipped(p) == Count(errlog, <<"start", p, "-">>) > 0
Started(p) == \E i \in 1..Len(procs) : procs[i] = p

\* C8: when the cycle is over, a pid whose agent could not be ensured has one
\* logged error, no worker and no dispatched record, and every other pid whose
\* worker was started has each of its categories either dispatched or logged
\* as failed by its worker.
C8_SkipOnePid ==
    CycleOver =>
        \A p \in Pids :
            Skipped(p) =>
                /\ Count(errlog, <<"start", p, "-">>) = 1
                /\ ~Started(p)
                /\ \A i \in 1..NDocs : Count(dispatched, <<p, ZOOK_DOCS[i]>>) = 0
                /\ \A q \in Pids \ {p} :
                     Started(q) =>
                        \A i \in 1..NDocs :
                            \/ Count(dispatched, <<q, ZOOK_DOCS[i]>>) = 1
                            \/ Count(errlog, <<"collect", q, ZOOK_DOCS[i]>>) = 1

Queued(p, doc) == Cardinality({i \in 1..Len(output) : output[i].pid = p /\ output[i].doc = doc})

\* C10: while the workers run, every category a worker is done with has either
\* one tuple in the queue and no error, or one logged error and no tuple,
\* whatever happened to the categories before it and to the other workers; a
\* category not reached yet has neither.
C10_CategoryIsolated ==
    pc = "spawn" =>
        \A p \in Pids, i \in 1..NDocs :
            LET q == Queued(p, ZOOK_DOCS[i])
                e == Count(errlog, <<"collect", p, ZOOK_DOCS[i]>>)
            IN  IF wpc[p] > i
                THEN (q = 1 /\ e = 0) \/ (q = 0 /\ e = 1)
                ELSE q = 0 /\ e = 0

\* The worker of "111" failed on jmxStats and queued zookeeperStats, and the
\* worker of "222" queued both its categories.
C10_Witness ==
    /\ pc = "spawn"
    /\ wpc["111"] = WorkerDone
    /\ wpc["222"] = WorkerDone
    /\ Count(errlog, <<"collect", "111", "jmxStats">>) = 1
    /\ Queued("111", "zookeeperStats") = 1
    /\ Queued("222", "jmxStats") = 1
    /\ Queued("222", "zookeeperStats") = 1

JmxSuffixes == {"CollectionTime", "CollectionCount", "UsageUsed"}
JmxCoreKeys == {"unloadedClass", "loadedClass", "threads", "heapMemoryUsageInit",
                "heapMemoryUsageUsed", "heapMemoryUsageCommitted", "nonHeapMemoryUsageInit",
                "nonHeapMemoryUsageUsed", "nonHeapMemoryUsageCommitted",
                TIMESTAMP, PLUGIN, PLUGINTYPE, ACTUALPLUGINTYPE, PLUGIN_INS}
JmxQueued ==
    /\ last_extract.pid # "-"
    /\ last_extract.doc = "jmxStats"
    /\ last_extract.probe = "200"
    /\ ~last_extract.raises

\* C9: in the jmxStats record a worker queued, a collector or pool name of the
\* wildcard query outside DEFAULT_GC / DEFAULT_MP was logged once and no key is
\* that name followed by a metric suffix; every key of the record is a fixed
\* key or an allow-listed name followed by a suffix; and an allow-listed name
\* of the query has its keys, with the converted values when its Valid flag
\* and its read succeeded.
C9_AllowList ==
    JmxQueued =>
        LET p == last_extract.pid
            resp == last_extract.resp
            d == output[Len(output)].dict
            gcs == resp.gc_list.value
            mps == resp.mp_list.value
            read(r) == r.valid.value /\ r.values.status = 200
        IN  /\ \A n \in gcs \ DEFAULT_GC :
                 /\ Count(errlog, <<"gc", p, Spaced(n)>>) = 1
                 /\ \A x \in JmxSuffixes :
                      ~Has(d, NoSpaces(n) \o x) /\ ~Has(d, Spaced(n) \o x)
            /\ \A n \in mps \ DEFAULT_MP :
                 /\ Count(errlog, <<"mp", p, Spaced(n)>>) = 1
                 /\ \A x \in JmxSuffixes :
                      ~Has(d, NoSpaces(n) \o x) /\ ~Has(d, Spaced(n) \o x)
            /\ DOMAIN d \subseteq
                 JmxCoreKeys
                 \cup {NoSpaces(n) \o x : n \in DEFAULT_GC, x \in {"CollectionTime", "CollectionCount"}}
                 \cup {NoSpaces(n) \o "UsageUsed" : n \in DEFAULT_MP}
            /\ \A n \in gcs \cap DEFAULT_GC :
                 /\ Count(errlog, <<"gc", p, Spaced(n)>>) = 0
                 /\ Has(d, NoSpaces(n) \o "CollectionTime")
                 /\ Has(d, NoSpaces(n) \o "CollectionCount")
                 /\ read(resp.gc[n]) =>
                      /\ d[NoSpaces(n) \o "CollectionTime"] = 123
                      /\ d[NoSpaces(n) \o "CollectionCount"] = 7
            /\ \A n \in mps \cap DEFAULT_MP :
                 /\ Count(errlog, <<"mp", p, Spaced(n)>>) = 0
                 /\ Has(d, NoSpaces(n) \o "UsageUsed")
                 /\ read(resp.mp[n]) => d[NoSpaces(n) \o "UsageUsed"] = 350

\* The wildcard queries returned an allow-listed and another name each; the
\* record has the values of the allow-listed ones and the others were logged.
C9_Witness ==
    /\ JmxQueued
    /\ last_extract.resp.gc_list.value = {<<"G1", "Young", "Generation">>} \cup OtherGc
    /\ last_extract.resp.mp_list.value = {<<"G1", "Old", "Gen">>} \cup OtherMp
    /\ Count(errlog, <<"gc", "111", "PS Scavenge">>) = 1
    /\ Count(errlog, <<"mp", "111", "PS Eden Space">>) = 1
    /\ output[Len(output)].dict["G1YoungGenerationCollectionTime"] = 123
    /\ output[Len(output)].dict["G1OldGenUsageUsed"] = 350

RateFields == {"packetsReceivedRate", "packetsSentRate"}

\* C11: after a call of add_rate_dispatch the sample stored for the pid is the
\* current sample as it was extracted, without the rate fields of this call.
C11_PreRate ==
    Rated =>
        /\ last_drain.pid \in DOMAIN prev_data
        /\ prev_data[last_drain.pid] = last_drain.dict

\* C11 as the code has it: a call in which add_rate did not raise overwrites
\* the stored sample with the current sample after the rate fields of this
\* call were attached to it: it agrees with the extracted sample on every
\* extracted field, has no other field than those and the rate fields, and
\* carries exactly the rate fields, with the values, that the call attached
\* (both with 0 for a first sample); a call in which add_rate raised leaves
\* the stored sample as it was.
C11_StoredWithRates ==
    Rated =>
        LET entry == prev_data[last_drain.pid]
        IN  IF last_drain.stored
            THEN /\ last_drain.pid \in DOMAIN prev_data
                 /\ \A k \in DOMAIN last_drain.dict :
                      Has(entry, k) /\ entry[k] = last_drain.dict[k]
                 /\ DOMAIN entry \subseteq DOMAIN last_drain.dict \cup RateFields
                 /\ last_drain.first => \A f \in RateFields : Has(entry, f) /\ entry[f] = 0
                 /\ \A kr \in RateKeys : RateCase(kr[1]) => Has(entry, kr[2])
                 /\ last_drain.sent =>
                      \A f \in RateFields :
                          /\ Has(entry, f) <=> Has(last_drain.out, f)
                          /\ Has(entry, f) => entry[f] = last_drain.out[f]
            ELSE /\ last_drain.exc = "KeyError"
                 /\ ~last_drain.first
                 /\ entry = last_drain.prev

\* A later sample of a process was stored with a computed rate that is not 0.
C11_Witness ==
    /\ Rated
    /\ last_drain.stored
    /\ RateCase("packetsReceived")
    /\ ~Has(last_drain.dict, "packetsReceivedRate")
    /\ prev_data[last_drain.pid]["packetsReceivedRate"] > 0

\* C12: stripping the raw counters from the forwarded record leaves the stored
\* sample as it was stored: it keeps every field of the current sample, the
\* raw counters included, and when the cycle has dispatched the zookeeperStats
\* record of a pid, the stored sample of that pid has both raw counters while
\* the forwarded record has neither.
C12_ValueCopy ==
    /\ (Rated /\ last_drain.stored) =>
          /\ \A k \in DOMAIN last_drain.dict :
               /\ Has(prev_data[last_drain.pid], k)
               /\ prev_data[last_drain.pid][k] = last_drain.dict[k]
          /\ last_drain.sent =>
               /\ ~Has(last_drain.out, "packetsReceived")
               /\ ~Has(last_drain.out, "packetsSent")
    /\ \A p \in Pids :
          Count(dispatched, <<p, "zookeeperStats">>) > 0 =>
              /\ p \in DOMAIN prev_data
              /\ Has(prev_data[p], "packetsReceived")
              /\ Has(prev_data[p], "packetsSent")

\* The cycle is over, the zookeeperStats records of both processes were
\* dispatched without their raw counters, and the stored sample of "111" has
\* the counter value the next cycle computes its rate from.
C12_Witness ==
    /\ CycleOver
    /\ outcome = "returned"
    /\ Count(dispatched, <<"111", "zookeeperStats">>) = 1
    /\ Count(dispatched, <<"222", "zookeeperStats">>) = 1
    /\ Rated
    /\ ~Has(last_drain.out, "packetsSent")
    /\ prev_data["111"]["packetsReceived"] = 1

RateCalled == last_rate.key # "-" /\ last_rate.done
\* The four soft-failure cases of get_rate for the last call.
NoPrevious == last_rate.prev = EmptyDict
KeyAbsent == ~Has(last_rate.prev, last_rate.key)
NoTimestamp == ~Has(last_rate.curr, TIMESTAMP) \/ ~Has(last_rate.prev, TIMESTAMP)
NotLater ==
    /\ Has(last_rate.curr, TIMESTAMP)
    /\ Has(last_rate.prev, TIMESTAMP)
    /\ last_rate.curr[TIMESTAMP] <= last_rate.prev[TIMESTAMP]
SoftCase == NoPrevious \/ KeyAbsent \/ NoTimestamp \/ NotLater

\* C13: in each of the four cases get_rate returns the NaN sentinel without
\* raising, and logs the condition.
C13_SoftFail ==
    (RateCalled /\ SoftCase) =>
        /\ last_rate.val = NAN
        /\ last_rate.exc = "none"
        /\ last_rate.err >= 1

\* C13 as the code has it: in each of the four cases get_rate returns the NaN
\* sentinel without raising; it logs one error when there is a previous
\* sample (key absent, timestamp absent, timestamp not later) and logs nothing
\* when there is no previous sample; outside the four cases it logs nothing
\* and returns a number or raises KeyError for a counter the current sample
\* lacks.
C13_SoftFailLogged ==
    RateCalled =>
        IF SoftCase
        THEN /\ last_rate.val = NAN
             /\ last_rate.exc = "none"
             /\ last_rate.err = IF NoPrevious THEN 0 ELSE 1
        ELSE /\ last_rate.err = 0
             /\ IF Has(last_rate.curr, last_rate.key)
                THEN last_rate.exc = "none" /\ ~last_rate.val.isnan
                ELSE last_rate.exc = "KeyError"

\* get_rate was called with two complete samples of the same second and
\* returned the sentinel with one error logged.
C13_Witness ==
    /\ RateCalled
    /\ ~NoPrevious /\ ~KeyAbsent /\ ~NoTimestamp
    /\ Has(last_rate.curr, last_rate.key)
    /\ last_rate.curr[TIMESTAMP] = last_rate.prev[TIMESTAMP]
    /\ last_rate.val = NAN
    /\ last_rate.err = 1

RateErrors(p) == Count(errlog, <<"rate", p, "-">>)
\* The sample of the last drain step is not later than the stored one.
NotLaterSample ==
    /\ Rated
    /\ ~last_drain.first
    /\ last_drain.dict[TIMESTAMP] <= last_drain.prev[TIMESTAMP]

\* C14: an overwrite of the stored sample of a pid stores a timestamp greater
\* than the one it replaces; a sample whose timestamp is not greater than the
\* stored one is reported as an error and is not stored.
C14_Increasing ==
    (Rated /\ ~last_drain.first) =>
        /\ last_drain.stored =>
             prev_data[last_drain.pid][TIMESTAMP] > last_drain.prev[TIMESTAMP]
        /\ NotLaterSample =>
             /\ RateErrors(last_drain.pid) >= 1
             /\ prev_data[last_drain.pid] = last_drain.prev

\* C14 as the code has it: a sample whose timestamp is not greater than the
\* stored one of its pid is reported, with one error for each tracked counter,
\* gets no rate field, and is stored nonetheless, so the stored timestamp is
\* then not greater than the one it replaced; a stored sample whose timestamp
\* is greater replaces a smaller one.
C14_Reported ==
    (Rated /\ ~last_drain.first) =>
        LET entry == prev_data[last_drain.pid]
        IN  /\ NotLaterSample =>
                 /\ RateErrors(last_drain.pid) = 2
                 /\ last_drain.stored
                 /\ entry[TIMESTAMP] = last_drain.dict[TIMESTAMP]
                 /\ entry[TIMESTAMP] <= last_drain.prev[TIMESTAMP]
                 /\ \A f \in RateFields : ~Has(entry, f)
            /\ (~NotLaterSample /\ last_drain.stored) =>
                 entry[TIMESTAMP] > last_drain.prev[TIMESTAMP]

\* Two cycles ran within one second: the second sample of "111", with both
\* counters, was reported twice and replaced the stored one at the same
\* timestamp.
C14_Witness ==
    /\ NotLaterSample
    /\ last_drain.pid = "111"
    /\ Has(last_drain.dict, "packetsReceived")
    /\ Has(last_drain.prev, "packetsReceived")
    /\ last_drain.stored
    /\ RateErrors("111") = 2
    /\ prev_data["111"][TIMESTAMP] = last_drain.prev[TIMESTAMP]

Running(p) == wpc[p] \in 1..NDocs

\* C15: prev_data is modified and a result is pulled from the queue only by a
\* step of the drain loop of the orchestrator, taken when no worker of the
\* cycle is running and every worker started has finished; a worker step
\* leaves prev_data as it is; and no worker runs while the orchestrator is in
\* the drain loop.
C15_OrchestratorOnly ==
    [][/\ (prev_data' # prev_data \/ drained' > drained) =>
            /\ pc = "drain"
            /\ \A p \in Pids : ~Running(p)
            /\ \A i \in 1..Len(procs) : wpc[procs[i]] = WorkerDone
       /\ (\E p \in Pids : wpc'[p] # wpc[p]) => prev_data' = prev_data
       /\ pc' = "drain" => \A p \in Pids : ~Running(p)']_vars

\* Two workers were started and joined, and the drain loop has stored the
\* samples of both.
C15_Witness ==
    /\ pc = "drain"
    /\ Len(procs) = 2
    /\ drained >= 3
    /\ "111" \in DOMAIN prev_data
    /\ "222" \in DOMAIN prev_data
    /\ last_drain.kind = "rate"
    /\ last_drain.first

DocIndex(doc) == CHOOSE i \in 1..NDocs : ZOOK_DOCS[i] = doc
\* The orders in which the tuples of the queue can arrive: each worker's
\* tuples in the order it queued them, the workers interleaved at will.
Arrivals ==
    {perm \in Permutations(1..Len(output)) :
        \A i, j \in 1..Len(output) :
            (i < j /\ output[perm[i]].pid = output[perm[j]].pid) => perm[i] < perm[j]}
Arrived(perm) == [i \in 1..Len(output) |-> output[perm[i]]]

\* C16: when the drain loop starts, the tuples of each worker are in the
\* queue in the order of ZOOK_DOCS, and for every order of arrival of the
\* workers' tuples the drain loop dispatches the same set of records and
\* leaves the same prev_data.
C16_OrderIndependent ==
    (pc = "drain" /\ drained = 0) =>
        /\ \A i, j \in 1..Len(output) :
              (i < j /\ output[i].pid = output[j].pid) =>
                  DocIndex(output[i].doc) < DocIndex(output[j].doc)
        /\ \A perm \in Arrivals :
              LET a == drain_loop(output, Len(procs) * NDocs, prev_data, interval)
                  b == drain_loop(Arrived(perm), Len(procs) * NDocs, prev_data, interval)
              IN  a.prev = b.prev /\ a.sent = b.sent

\* C17: every zookeeperStats record handed to utils.dispatch carries both rate
\* fields as non-negative numbers.
C17_RatesPresent ==
    (Rated /\ last_drain.sent) =>
        \A f \in RateFields : Has(last_drain.out, f) /\ last_drain.out[f] >= 0

\* C17 as the code has it: a zookeeperStats record handed to utils.dispatch
\* carries the rate field of a counter exactly when the sample was the first
\* of its pid (the field is 0) or get_rate computed a rate for the counter
\* (the field is not negative); when get_rate returned the sentinel for the
\* counter (timestamp not later than the stored one, counter missing from the
\* stored sample) the record is dispatched without that rate field.
C17_RatesUnlessAnomaly ==
    (Rated /\ last_drain.sent) =>
        \A kr \in RateKeys :
            /\ Has(last_drain.out, kr[2]) <=> (last_drain.first \/ RateCase(kr[1]))
            /\ Has(last_drain.out, kr[2]) => last_drain.out[kr[2]] >= 0
            /\ last_drain.first => last_drain.out[kr[2]] = 0
            /\ (~last_drain.first /\ ~RateCase(kr[1])) => RateErrors(last_drain.pid) >= 1

\* Two complete samples of "111" were taken within one second: the second was
\* dispatched without rate fields and without raw counters, and two errors
\* were logged.
C17_Witness ==
    /\ Rated
    /\ last_drain.sent
    /\ last_drain.pid = "111"
    /\ ~last_drain.first
    /\ Has(last_drain.prev, "packetsReceived")
    /\ Has(last_drain.prev, "packetsSent")
    /\ last_drain.dict[TIMESTAMP] = last_drain.prev[TIMESTAMP]
    /\ ~Has(last_drain.out, "packetsReceivedRate")
    /\ ~Has(last_drain.out, "packetsSentRate")
    /\ ~Has(last_drain.out, "packetsSent")
    /\ RateErrors("111") = 2
====
